---- MODULE Spec2Model ----
(***************************************************************************)
(* Model of tod's temporal resolution and ranking code                     *)
(* (src/src/tasks.rs, src/src/time.rs).                                    *)
(*                                                                         *)
(* Strings are sequences of one-character strings, so that str.len() and   *)
(* the chrono parsers act on the characters.  Instants are whole seconds   *)
(* since 1970-01-01T00:00:00Z, calendar dates are days since 1970-01-01.   *)
(* Option<T> is a sequence of length 0 (None) or 1 (Some).  A value that is *)
(* used more than once is passed to a helper operator as an argument.      *)
(***************************************************************************)
EXTENDS Integers, Sequences, FiniteSets, TLC

\* ------------------------------------------------------------------------
\* Bounds of the model
\* ------------------------------------------------------------------------
MaxTasks == 2
MaxTicks == 1
MaxRequests == 2

\* ------------------------------------------------------------------------
\* Units of chrono's calendar
\* ------------------------------------------------------------------------
SecsPerMinute == 60
SecsPerDay == 86400
U8Modulus == 256

None == <<>>
Some(x) == <<x>>
IsSome(o) == Len(o) = 1
Unwrap(o) == o[1]

\* ------------------------------------------------------------------------
\* chrono::NaiveDate: proleptic Gregorian calendar
\* ------------------------------------------------------------------------
IsLeapYear(y) == (y % 4 = 0 /\ y % 100 # 0) \/ y % 400 = 0

DaysInMonth(y, m) ==
    IF m = 2 THEN (IF IsLeapYear(y) THEN 29 ELSE 28)
    ELSE IF m \in {4, 6, 9, 11} THEN 30 ELSE 31

DaysFromEra(era, yoe, doy) ==
    era * 146097 + yoe * 365 + yoe \div 4 - yoe \div 100 + doy - 719468

DaysFromShifted(yy, mp, d) ==
    DaysFromEra(yy \div 400, yy % 400, (153 * mp + 2) \div 5 + d - 1)

\* days since 1970-01-01 of the civil date y-m-d
DaysFromCivil(y, m, d) ==
    DaysFromShifted(IF m <= 2 THEN y - 1 ELSE y, IF m > 2 THEN m - 3 ELSE m + 9, d)

CivilFromMp(y, doy, mp) ==
    <<IF mp < 10 THEN y ELSE y + 1,
      IF mp < 10 THEN mp + 3 ELSE mp - 9,
      doy - (153 * mp + 2) \div 5 + 1>>

CivilFromDoy(era, yoe, doy) == CivilFromMp(yoe + era * 400, doy, (5 * doy + 2) \div 153)

CivilFromYoe(era, doe, yoe) ==
    CivilFromDoy(era, yoe, doe - (365 * yoe + yoe \div 4 - yoe \div 100))

CivilFromDoe(era, doe) ==
    CivilFromYoe(era, doe,
                 (doe - doe \div 1460 + doe \div 36524 - doe \div 146096) \div 365)

\* the civil date <<year, month, day>> of a day number
CivilFromDays(z) == CivilFromDoe((z + 719468) \div 146097, (z + 719468) % 146097)

\* the civil year of a day number
YearOfDay(z) == CivilFromDays(z)[1]

\* NaiveDate::format("%Y-%m-%d"): the year, month and day the string spells
FormatYmd(date) == CivilFromDays(date)

\* 0 = Sunday .. 6 = Saturday (1970-01-01 was a Thursday)
WeekdayOf(day) == (day + 4) % 7

SundayOnOrAfter(day) == day + ((7 - WeekdayOf(day)) % 7)

\* the n-th Sunday (n >= 1) of month m of year y, as a day number
NthSunday(y, m, n) == SundayOnOrAfter(DaysFromCivil(y, m, 1)) + 7 * (n - 1)

\* ------------------------------------------------------------------------
\* chrono_tz::Tz: the zones of the model and their UTC offsets
\* ------------------------------------------------------------------------
UTC == "UTC"
LosAngeles == "America/Los_Angeles"
Tokyo == "Asia/Tokyo"
KnownZones == {UTC, LosAngeles, Tokyo}

PacificStandardOffset == -28800
PacificDaylightOffset == -25200
TokyoOffset == 32400

\* America/Los_Angeles (rule in force since 2007): daylight time from the
\* second Sunday of March 02:00 PST to the first Sunday of November 02:00 PDT
PacificDstStart(y) == NthSunday(y, 3, 2) * SecsPerDay + 2 * 3600 - PacificStandardOffset

PacificDstEnd(y) == NthSunday(y, 11, 1) * SecsPerDay + 2 * 3600 - PacificDaylightOffset

PacificOffset(utc, y) ==
    IF utc >= PacificDstStart(y) /\ utc < PacificDstEnd(y)
    THEN PacificDaylightOffset ELSE PacificStandardOffset

\* the offset from UTC, in seconds, that zone tz observes at the instant utc
OffsetAt(tz, utc) ==
    IF tz = LosAngeles THEN PacificOffset(utc, YearOfDay(utc \div SecsPerDay))
    ELSE IF tz = Tokyo THEN TokyoOffset
    ELSE 0

ZoneOffsets(tz) ==
    IF tz = LosAngeles THEN {PacificStandardOffset, PacificDaylightOffset}
    ELSE IF tz = Tokyo THEN {TokyoOffset}
    ELSE {0}

\* NaiveDateTime::and_local_timezone: the instants whose wall clock in tz
\* reads `naive` (none in a spring-forward gap, two in a fall-back overlap)
LocalCandidates(naive, tz) ==
    {u \in {naive - o : o \in ZoneOffsets(tz)} : u + OffsetAt(tz, u) = naive}

\* DateTime<Tz>::date_naive: the calendar date of the wall clock in the
\* zone the DateTime is anchored in
DateNaive(dt) == (dt.utc + OffsetAt(dt.tz, dt.utc)) \div SecsPerDay

\* ------------------------------------------------------------------------
\* chrono's parsers, on fixed-width strings
\* ------------------------------------------------------------------------
Digits == {"0", "1", "2", "3", "4", "5", "6", "7", "8", "9"}

DigitVal(c) ==
    CASE c = "0" -> 0 [] c = "1" -> 1 [] c = "2" -> 2 [] c = "3" -> 3
      [] c = "4" -> 4 [] c = "5" -> 5 [] c = "6" -> 6 [] c = "7" -> 7
      [] c = "8" -> 8 [] c = "9" -> 9

Num2(s, i) == 10 * DigitVal(s[i]) + DigitVal(s[i + 1])

Num4(s, i) == 100 * Num2(s, i) + Num2(s, i + 2)

\* the characters of s at `digits` are digits, those at `seps` spell sep
HasShape(s, digits, seps, sep) ==
    /\ \A i \in digits : s[i] \in Digits
    /\ \A i \in DOMAIN seps : s[seps[i]] = sep[i]

\* NaiveDate::from_ymd_opt: Some(day number) or None
DateOfYmd(y, m, d) ==
    IF m \in 1..12 /\ d \in 1..DaysInMonth(y, m)
    THEN Some(DaysFromCivil(y, m, d))
    ELSE None

\* NaiveDate::parse_from_str(s, "%Y-%m-%d") for the first ten characters of
\* s: Some(day number), or None when they are not a calendar date
ParseDatePart(s) ==
    IF HasShape(s, {1, 2, 3, 4, 6, 7, 9, 10}, <<5, 8>>, <<"-", "-">>)
    THEN DateOfYmd(Num4(s, 1), Num2(s, 6), Num2(s, 9))
    ELSE None

\* NaiveTime::from_hms_opt: Some(second of the day) or None
TimeOfHms(hh, mm, ss) ==
    IF hh \in 0..23 /\ mm \in 0..59 /\ ss \in 0..59
    THEN Some(hh * 3600 + mm * SecsPerMinute + ss)
    ELSE None

\* the "T%H:%M:%S" part, characters 11..19: Some(second of the day) or None
ParseTimePart(s) ==
    IF HasShape(s, {12, 13, 15, 16, 18, 19}, <<11, 14, 17>>, <<"T", ":", ":">>)
    THEN TimeOfHms(Num2(s, 12), Num2(s, 15), Num2(s, 18))
    ELSE None

NaiveOf(d, t, rest) ==
    IF IsSome(d) /\ IsSome(t) /\ rest
    THEN Some(Unwrap(d) * SecsPerDay + Unwrap(t))
    ELSE None

\* NaiveDateTime::parse_from_str(s, "%Y-%m-%dT%H:%M:%S") when zsuffix is
\* FALSE (19 characters), "...%SZ" when it is TRUE (20 characters):
\* Some(seconds of the wall clock since 1970-01-01T00:00:00) or None
ParseNaiveDateTime(s, zsuffix) ==
    NaiveOf(ParseDatePart(s), ParseTimePart(s), zsuffix => s[20] = "Z")

\* ------------------------------------------------------------------------
\* Result values.  A call that unwinds (unwrap / expect on a failure, or a
\* checked arithmetic overflow) is the value Panic.
\* ------------------------------------------------------------------------
NoDateTimeKind == "NoDateTime"
DateKind == "Date"
DateTimeKind == "DateTime"
ErrKind == "Err"
PanicKind == "Panic"

NoInstant == [utc |-> 0, tz |-> UTC]
NoError == [text |-> "", raw |-> <<>>]

Info(kind, date, datetime, rec, err) ==
    [kind |-> kind, date |-> date, datetime |-> datetime,
     is_recurring |-> rec, err |-> err]

Panic == Info(PanicKind, 0, NoInstant, FALSE, NoError)

Err(text, raw) == Info(ErrKind, 0, NoInstant, FALSE, [text |-> text, raw |-> raw])

Failed == [ok |-> FALSE, v |-> 0]

Ok(v) == [ok |-> TRUE, v |-> v]

\* ------------------------------------------------------------------------
\* src/src/time.rs
\* ------------------------------------------------------------------------
\* timezone_from_str: [ok, tz]; ok is FALSE when parse::<Tz>().unwrap() panics
timezone_from_str(timezone_string) ==
    IF ~IsSome(timezone_string) THEN [ok |-> TRUE, tz |-> UTC]
    ELSE IF Unwrap(timezone_string) \in KnownZones
         THEN [ok |-> TRUE, tz |-> Unwrap(timezone_string)]
         ELSE [ok |-> FALSE, tz |-> UTC]

InZone(z, utcnow) == [ok |-> z.ok, datetime |-> [utc |-> utcnow, tz |-> z.tz]]

\* now: [ok, datetime], the clock reading utcnow seen in the configured zone
now(config, utcnow) == InZone(timezone_from_str(config.timezone), utcnow)

DateOf(n) == [ok |-> n.ok, date |-> DateNaive(n.datetime)]

\* today_date: [ok, date]
today_date(config, utcnow) == DateOf(now(config, utcnow))

Formatted(n) == [ok |-> n.ok, str |-> FormatYmd(DateNaive(n.datetime))]

\* today_string: [ok, str]
today_string(config, utcnow) == Formatted(now(config, utcnow))

SameString(str, t) == [ok |-> t.ok, b |-> t.ok /\ str = t.str]

\* date_is_today: [ok, b]
date_is_today(date, config, utcnow) ==
    SameString(FormatYmd(date), today_string(config, utcnow))

\* datetime_is_today: [ok, b]
datetime_is_today(datetime, config, utcnow) ==
    date_is_today(DateNaive(datetime), config, utcnow)

\* date.signed_duration_since(today).num_days() < 0
Before(date, t) == [ok |-> t.ok, b |-> (date - t.date) < 0]

\* the same with the operands of signed_duration_since exchanged
Behind(date, t) == [ok |-> t.ok, b |-> (t.date - date) < 0]

is_date_in_past_swapped(date, config, utcnow) == Behind(date, today_date(config, utcnow))

\* is_date_in_past: [ok, b]
is_date_in_past(date, config, utcnow) == Before(date, today_date(config, utcnow))

\* a String the program prints: a literal, or the numbers a chrono format
\* writes, followed by the abbreviation of the zone when the format has one
Str(lit, num, zone) == [lit |-> lit, num |-> num, zone |-> zone]

\* DateTime::with_timezone: the same instant, anchored in tz
with_timezone(datetime, tz) == [utc |-> datetime.utc, tz |-> tz]

\* the time of day of dt on the wall clock of its zone, in seconds
TimeOfDay(dt) == (dt.utc + OffsetAt(dt.tz, dt.utc)) % SecsPerDay

\* datetime.format("%H:%M").to_string()
FormatHm(dt) ==
    Str("", <<TimeOfDay(dt) \div 3600, (TimeOfDay(dt) % 3600) \div SecsPerMinute>>, "")

\* what chrono_tz prints for the offset of dt
Abbreviation(dt) ==
    CASE dt.tz = UTC -> "UTC"
      [] dt.tz = LosAngeles ->
            IF OffsetAt(dt.tz, dt.utc) = PacificStandardOffset THEN "PST" ELSE "PDT"
      [] dt.tz = Tokyo -> "JST"

\* DateTime<Tz>::to_string: "2024-01-01 16:14:30 PST"
to_string(dt) ==
    Str("",
        FormatYmd(DateNaive(dt)) \o
            <<TimeOfDay(dt) \div 3600, (TimeOfDay(dt) % 3600) \div SecsPerMinute,
              TimeOfDay(dt) % SecsPerMinute>>,
        Abbreviation(dt))

TodayOrYmd(t, date) ==
    [ok |-> t.ok,
     str |-> IF t.b THEN Str("Today", <<>>, "") ELSE Str("", FormatYmd(date), "")]

\* format_date without the "Today" label
format_date_never_today(date, config, utcnow) ==
    TodayOrYmd([ok |-> date_is_today(date, config, utcnow).ok, b |-> FALSE], date)

\* format_date: [ok, str]
format_date(date, config, utcnow) ==
    TodayOrYmd(date_is_today(date, config, utcnow), date)

HmOrFull(z, t, datetime) ==
    [ok |-> z.ok /\ t.ok,
     str |-> IF t.b THEN FormatHm(with_timezone(datetime, z.tz))
             ELSE to_string(with_timezone(datetime, z.tz))]

\* format_datetime: [ok, str]
format_datetime(datetime, config, utcnow) ==
    HmOrFull(timezone_from_str(config.timezone),
             datetime_is_today(datetime, config, utcnow), datetime)

\* LocalResult::unwrap: [ok, datetime]
UnwrapLocal(c, tz) ==
    IF Cardinality(c) = 1
    THEN [ok |-> TRUE, datetime |-> [utc |-> CHOOSE u \in c : TRUE, tz |-> tz]]
    ELSE [ok |-> FALSE, datetime |-> NoInstant]

\* naive.and_local_timezone(tz) followed by unwrap(): [ok, datetime]
AndLocalTimezoneUnwrap(naive, tz) == UnwrapLocal(LocalCandidates(naive, tz), tz)

DateTimeOrPanic(r) ==
    IF r.ok THEN Info(DateTimeKind, 0, r.datetime, FALSE, NoError) ELSE Panic

\* expect("could not parse DateTime") on the parse, unwrap() on the local
\* result
ExpectDateTime(naive, zone) ==
    IF IsSome(naive)
    THEN DateTimeOrPanic(AndLocalTimezoneUnwrap(Unwrap(naive), zone))
    ELSE Panic

\* datetime_from_str with "{str}" left out of the error text
datetime_from_str_no_raw(str, timezone) ==
    IF Len(str) = 19 THEN ExpectDateTime(ParseNaiveDateTime(str, FALSE), timezone)
    ELSE IF Len(str) = 20 THEN ExpectDateTime(ParseNaiveDateTime(str, TRUE), UTC)
    ELSE Err("cannot parse DateTime: ", <<>>)

\* datetime_from_str attaching the zone it is given to a "...Z" string too
datetime_from_str_local_z(str, timezone) ==
    IF Len(str) = 19 THEN ExpectDateTime(ParseNaiveDateTime(str, FALSE), timezone)
    ELSE IF Len(str) = 20 THEN ExpectDateTime(ParseNaiveDateTime(str, TRUE), timezone)
    ELSE Err("cannot parse DateTime: ", str)

\* datetime_from_str: a record of kind DateTime, Err or Panic
datetime_from_str(str, timezone) ==
    IF Len(str) = 19 THEN ExpectDateTime(ParseNaiveDateTime(str, FALSE), timezone)
    ELSE IF Len(str) = 20 THEN ExpectDateTime(ParseNaiveDateTime(str, TRUE), UTC)
    ELSE Err("cannot parse DateTime: ", str)

DateOrErr(d, text) ==
    IF IsSome(d) THEN Info(DateKind, Unwrap(d), NoInstant, FALSE, NoError)
    ELSE Err(text, <<>>)

DateOrPanic(r) ==
    IF r.ok THEN Info(DateKind, DateNaive(r.datetime), NoInstant, FALSE, NoError)
    ELSE Panic

LocalDateOrErr(naive, timezone) ==
    IF IsSome(naive) THEN DateOrPanic(AndLocalTimezoneUnwrap(Unwrap(naive), timezone))
    ELSE Err("could not parse DateTime", <<>>)

\* date_from_str: a record of kind Date, Err or Panic
date_from_str(str, timezone) ==
    IF Len(str) = 10 THEN DateOrErr(ParseDatePart(str), "could not parse Date")
    ELSE IF Len(str) = 19 THEN LocalDateOrErr(ParseNaiveDateTime(str, FALSE), timezone)
    ELSE IF Len(str) = 20 THEN LocalDateOrErr(ParseNaiveDateTime(str, TRUE), timezone)
    ELSE Err("cannot parse NaiveDate, unknown length: ", str)

\* ------------------------------------------------------------------------
\* src/src/tasks.rs
\* A Task is [id, priority, due]; due is an Option of a DateInfo
\* [date, is_recurring, timezone].  A Config is [timezone].  The other
\* fields of both are not read by the code modelled here.
\* ------------------------------------------------------------------------
PriorityNone == "None"
PriorityLow == "Low"
PriorityMedium == "Medium"
PriorityHigh == "High"
Priorities == {PriorityNone, PriorityLow, PriorityMedium, PriorityHigh}

\* priority_value as the ordinal of the priority: None and Low exchanged
priority_value_ordinal(task) ==
    CASE task.priority = PriorityNone -> 1
      [] task.priority = PriorityLow -> 2
      [] task.priority = PriorityMedium -> 3
      [] task.priority = PriorityHigh -> 4

\* priority_value on a scale that outweighs the date values
priority_value_dominant(task) ==
    CASE task.priority = PriorityNone -> 100
      [] task.priority = PriorityLow -> 50
      [] task.priority = PriorityMedium -> 150
      [] task.priority = PriorityHigh -> 200

\* Task::priority_value
priority_value(task) ==
    CASE task.priority = PriorityNone -> 2
      [] task.priority = PriorityLow -> 1
      [] task.priority = PriorityMedium -> 3
      [] task.priority = PriorityHigh -> 4

\* the `tz` local of datetimeinfo with the zone of the Config taken first
datetimeinfo_tz_config_first(task, config) ==
    IF IsSome(config.timezone)
    THEN timezone_from_str(config.timezone)
    ELSE IF IsSome(task.due) /\ IsSome(Unwrap(task.due).timezone)
    THEN timezone_from_str(Unwrap(task.due).timezone)
    ELSE [ok |-> TRUE, tz |-> UTC]

\* the `tz` local of Task::datetimeinfo: [ok, tz]
datetimeinfo_tz(task, config) ==
    IF IsSome(task.due) /\ IsSome(Unwrap(task.due).timezone)
    THEN timezone_from_str(Unwrap(task.due).timezone)
    ELSE IF IsSome(config.timezone)
    THEN timezone_from_str(config.timezone)
    ELSE [ok |-> TRUE, tz |-> UTC]

WithRecurring(r, rec) ==
    IF r.kind \in {DateKind, DateTimeKind} THEN [r EXCEPT !.is_recurring = rec]
    ELSE r

\* the second match of Task::datetimeinfo, for a due field that is present
ResolveDue(due, tz) ==
    WithRecurring(IF Len(due.date) = 10 THEN date_from_str(due.date, tz)
                  ELSE datetime_from_str(due.date, tz),
                  due.is_recurring)

ResolveIn(task, z) ==
    IF ~z.ok THEN Panic
    ELSE IF ~IsSome(task.due) THEN Info(NoDateTimeKind, 0, NoInstant, FALSE, NoError)
    ELSE ResolveDue(Unwrap(task.due), z.tz)

\* Task::datetimeinfo: a record of kind NoDateTime, Date, DateTime, Err or
\* Panic
datetimeinfo(task, config) == ResolveIn(task, datetimeinfo_tz(task, config))

\* the match of Task::is_overdue on the resolved due field i
OverdueOf(i, config, utcnow) ==
    CASE i.kind = PanicKind -> [ok |-> FALSE, b |-> FALSE]
      [] i.kind = NoDateTimeKind -> [ok |-> TRUE, b |-> FALSE]
      [] i.kind = DateKind -> is_date_in_past(i.date, config, utcnow)
      [] i.kind = DateTimeKind -> is_date_in_past(DateNaive(i.datetime), config, utcnow)
      [] i.kind = ErrKind -> [ok |-> TRUE, b |-> FALSE]

\* Task::is_overdue, the clock reading utcnow: [ok, b]
is_overdue(task, config, utcnow) == OverdueOf(datetimeinfo(task, config), config, utcnow)

Bool(b) == [ok |-> TRUE, b |-> b]

Aborted == [ok |-> FALSE, b |-> FALSE]

\* a || b and a && b: b is evaluated only when a does not decide
OrElse(a, b) == IF ~a.ok \/ a.b THEN a ELSE b

AndThen(a, b) == IF ~a.ok \/ ~a.b THEN a ELSE b

\* Task::has_no_date
has_no_date(task) == ~IsSome(task.due)

SameDate(date, t) == [ok |-> t.ok, b |-> t.ok /\ date = t.date]

\* the match of Task::is_today on the resolved due field i
TodayOf(i, config, utcnow) ==
    CASE i.kind = PanicKind -> Aborted
      [] i.kind = NoDateTimeKind -> Bool(FALSE)
      [] i.kind = DateKind -> SameDate(i.date, today_date(config, utcnow))
      [] i.kind = DateTimeKind -> datetime_is_today(i.datetime, config, utcnow)
      [] i.kind = ErrKind -> Bool(FALSE)

\* Task::is_today, the clock reading utcnow: [ok, b]
is_today(task, config, utcnow) == TodayOf(datetimeinfo(task, config), config, utcnow)

\* Task::is_recurring
is_recurring(task) == IsSome(task.due) /\ Unwrap(task.due).is_recurring

HasTimeOf(i) == [ok |-> i.kind # PanicKind, b |-> i.kind = DateTimeKind]

\* Task::has_time: [ok, b]
has_time(task, config) == HasTimeOf(datetimeinfo(task, config))

Unscheduled == "Unscheduled"
Overdue == "Overdue"
Recurring == "Recurring"
TaskFilters == {Unscheduled, Overdue, Recurring}

\* Task::filter with Unscheduled asking is_overdue alone
filter_overdue_alone(task, config, f, utcnow) ==
    CASE f = Unscheduled -> is_overdue(task, config, utcnow)
      [] f = Overdue -> is_overdue(task, config, utcnow)
      [] f = Recurring -> Bool(is_recurring(task))

\* Task::filter, the clock reading utcnow: [ok, b]
filter(task, config, f, utcnow) ==
    CASE f = Unscheduled ->
            OrElse(Bool(has_no_date(task)), is_overdue(task, config, utcnow))
      [] f = Overdue -> is_overdue(task, config, utcnow)
      [] f = Recurring -> Bool(is_recurring(task))

DatetimeOf(i) ==
    [ok |-> i.kind # PanicKind,
     v |-> IF i.kind = DateTimeKind THEN Some(i.datetime) ELSE None]

\* Task::datetime: [ok, v], v an Option of a DateTime
datetime(task, config) == DatetimeOf(datetimeinfo(task, config))

List == "List"
Single == "Single"
FormatTypes == {List, Single}

\* the colour Task::fmt gives the content
ContentColour(priority) ==
    CASE priority = PriorityLow -> "blue"
      [] priority = PriorityMedium -> "yellow"
      [] priority = PriorityHigh -> "red"
      [] priority = PriorityNone -> "normal"

\* the `buffer` and `prefix` locals of Task::fmt
Buffer(format) == IF format = List THEN "  " ELSE ""

Prefix(format) == IF format = List THEN "- " ELSE ""

\* the `due` local of Task::fmt: no text, the line
\* "\n{buffer}Due: {date_string}{recurring_icon}", or the text of the error
NoDue == [line |-> <<>>, err |-> NoError]

DueLine(buffer, s, rec) ==
    [ok |-> s.ok,
     v |-> [line |-> <<[buffer |-> buffer, date_string |-> s.str,
                        recurring_icon |-> IF rec THEN " ↻" ELSE ""]>>,
            err |-> NoError]]

\* the match of Task::fmt on the resolved due field i
DueOf(i, config, buffer, utcnow) ==
    CASE i.kind = PanicKind -> [ok |-> FALSE, v |-> NoDue]
      [] i.kind = DateKind ->
            DueLine(buffer, format_date(i.date, config, utcnow), i.is_recurring)
      [] i.kind = DateTimeKind ->
            DueLine(buffer, format_datetime(i.datetime, config, utcnow), i.is_recurring)
      [] i.kind = NoDateTimeKind -> [ok |-> TRUE, v |-> NoDue]
      [] i.kind = ErrKind -> [ok |-> TRUE, v |-> [line |-> <<>>, err |-> i.err]]

Line(prefix, colour, d) ==
    [ok |-> d.ok, v |-> [prefix |-> prefix, content |-> colour, due |-> d.v]]

\* Task::fmt, the clock reading utcnow: [ok, v], v the parts of
\* "{prefix}{content}{description}{due}"
fmt(task, config, format, utcnow) ==
    Line(Prefix(format), ContentColour(task.priority),
         DueOf(datetimeinfo(task, config), config, Buffer(format), utcnow))

\* TimeDelta::num_minutes of a duration in seconds: truncates toward zero
num_minutes(duration) ==
    IF duration >= 0 THEN duration \div SecsPerMinute
    ELSE 0 - ((0 - duration) \div SecsPerMinute)

\* a u8 addition: with overflow checks it panics, without it wraps
AddU8(a, b, checked) ==
    IF ~a.ok THEN a
    ELSE IF a.v + b < U8Modulus THEN Ok(a.v + b)
    ELSE [ok |-> ~checked, v |-> (a.v + b) % U8Modulus]

\* today_value + overdue_value + recurring_value
DateSum(today_value, overdue_value, recurring_value, checked) ==
    AddU8(AddU8(Ok(today_value), overdue_value, checked), recurring_value, checked)

DateArm(i, today, over, recurring_value, checked) ==
    IF ~today.ok \/ ~over.ok THEN Failed
    ELSE DateSum(IF i.date = today.date THEN 100 ELSE 0,
                 IF over.b THEN 150 ELSE 0, recurring_value, checked)

\* the Date arm with the recurrence test inverted
date_value_date_recurring_inverted(i, task, config, r1, r2, checked) ==
    DateArm(i, today_date(config, r1), is_overdue(task, config, r2),
            IF i.is_recurring THEN 50 ELSE 0, checked)

\* Task::date_value, the Date arm: [ok, v].  r1 is the clock reading of
\* time::today_date, r2 the reading made inside is_overdue.
date_value_date(i, task, config, r1, r2, checked) ==
    DateArm(i, today_date(config, r1), is_overdue(task, config, r2),
            IF i.is_recurring THEN 0 ELSE 50, checked)

DateTimeArm(i, n, recurring_value, checked) ==
    IF ~n.ok THEN Failed
    ELSE IF num_minutes(i.datetime.utc - n.datetime.utc) \in -15..15
    THEN AddU8(Ok(200), recurring_value, checked)
    ELSE Ok(recurring_value)

\* Task::date_value, the DateTime arm: [ok, v].  r1 is the clock reading of
\* time::now.
date_value_datetime(i, config, r1, checked) ==
    DateTimeArm(i, now(config, r1), IF i.is_recurring THEN 0 ELSE 50, checked)

\* the match of date_value giving an undated task the value of the Err arm
DateValueOfNoDateNeutral(i, task, config, r1, r2, checked) ==
    CASE i.kind = PanicKind -> Failed
      [] i.kind = NoDateTimeKind -> Ok(50)
      [] i.kind = DateKind -> date_value_date(i, task, config, r1, r2, checked)
      [] i.kind = DateTimeKind -> date_value_datetime(i, config, r1, checked)
      [] i.kind = ErrKind -> Ok(50)

date_value_no_date_neutral(task, config, r1, r2, checked) ==
    DateValueOfNoDateNeutral(datetimeinfo(task, config), task, config, r1, r2, checked)

\* the match of Task::date_value on the resolved due field i
DateValueOf(i, task, config, r1, r2, checked) ==
    CASE i.kind = PanicKind -> Failed
      [] i.kind = NoDateTimeKind -> Ok(80)
      [] i.kind = DateKind -> date_value_date(i, task, config, r1, r2, checked)
      [] i.kind = DateTimeKind -> date_value_datetime(i, config, r1, checked)
      [] i.kind = ErrKind -> Ok(50)

\* Task::date_value: [ok, v]
date_value(task, config, r1, r2, checked) ==
    DateValueOf(datetimeinfo(task, config), task, config, r1, r2, checked)

Plus(d, p) == IF d.ok THEN Ok(d.v + p) ELSE Failed

\* Task::value: [ok, v]
value(task, config, r1, r2, checked) ==
    Plus(date_value(task, config, r1, r2, checked), priority_value(task))

\* ------------------------------------------------------------------------
\* The system clock (Utc::now) over one call: the readings made before the
\* slot `jump` return base, the later ones base + delta.
\* ------------------------------------------------------------------------
\* the clock standing still at c over a call
Steady(c) == [base |-> c, jump |-> 0, delta |-> 0]

ReadClock(sched, slot) ==
    IF slot < sched.jump THEN sched.base ELSE sched.base + sched.delta

Negated(k) == [ok |-> k.ok, v |-> 0 - k.v]

\* KeyAt without the Reverse: the pass sorts ascending
KeyAtAscending(task, config, sched, e, checked) ==
    Negated(value(task, config, ReadClock(sched, 2 * e), ReadClock(sched, 2 * e + 1),
                  checked))

\* the key closure of sort_by_value, at its e-th evaluation during the pass
KeyAt(task, config, sched, e, checked) ==
    value(task, config, ReadClock(sched, 2 * e), ReadClock(sched, 2 * e + 1), checked)

\* a swap that loses the element it moves over
SwapOverwriting(v, j) == [v EXCEPT ![j - 1] = v[j]]

Swap(v, j) == [v EXCEPT ![j - 1] = v[j], ![j] = v[j - 1]]

Sorted(ok, v, n) == [ok |-> ok, v |-> v, n |-> n]

\* slice::sort_by_key on a short slice is an insertion sort: the element at
\* index j moves left while is_less(v[j], v[j - 1]), i.e. while
\* Reverse(key(v[j])) < Reverse(key(v[j - 1])).  n counts the comparisons
\* made so far; every comparison evaluates the key of both elements anew.
RECURSIVE InsertTail(_, _, _, _, _, _)

Compared(ka, kb, v, j, n, config, sched, checked) ==
    IF ~ka.ok \/ ~kb.ok THEN Sorted(FALSE, v, n + 1)
    ELSE IF ka.v > kb.v
    THEN InsertTail(Swap(v, j), j - 1, n + 1, config, sched, checked)
    ELSE Sorted(TRUE, v, n + 1)

InsertTail(v, j, n, config, sched, checked) ==
    IF j = 1 THEN Sorted(TRUE, v, n)
    ELSE Compared(KeyAt(v[j], config, sched, 2 * n, checked),
                  KeyAt(v[j - 1], config, sched, 2 * n + 1, checked),
                  v, j, n, config, sched, checked)

RECURSIVE InsertionSort(_, _, _, _, _, _)

Inserted(r, i, config, sched, checked) ==
    IF ~r.ok THEN r
    ELSE InsertionSort(r.v, i + 1, r.n, config, sched, checked)

InsertionSort(v, i, n, config, sched, checked) ==
    IF i > Len(v) THEN Sorted(TRUE, v, n)
    ELSE Inserted(InsertTail(v, i, n, config, sched, checked), i, config, sched, checked)

\* sort_by_value: [ok, v, n]
sort_by_value(tasks, config, sched, checked) ==
    InsertionSort(tasks, 2, 0, config, sched, checked)

\* Option<DateTime<Tz>> as Ord: None before Some, two Some by their instants
KeyLess(ka, kb) ==
    IF ~IsSome(kb) THEN FALSE
    ELSE IF ~IsSome(ka) THEN TRUE
    ELSE Unwrap(ka).utc < Unwrap(kb).utc

RECURSIVE InsertTailByDatetime(_, _, _, _)

ComparedByDatetime(ka, kb, v, j, n, config) ==
    IF ~ka.ok \/ ~kb.ok THEN Sorted(FALSE, v, n + 1)
    ELSE IF KeyLess(ka.v, kb.v)
    THEN InsertTailByDatetime(Swap(v, j), j - 1, n + 1, config)
    ELSE Sorted(TRUE, v, n + 1)

InsertTailByDatetime(v, j, n, config) ==
    IF j = 1 THEN Sorted(TRUE, v, n)
    ELSE ComparedByDatetime(datetime(v[j], config), datetime(v[j - 1], config),
                            v, j, n, config)

RECURSIVE InsertionSortByDatetime(_, _, _, _)

InsertedByDatetime(r, i, config) ==
    IF ~r.ok THEN r
    ELSE InsertionSortByDatetime(r.v, i + 1, r.n, config)

InsertionSortByDatetime(v, i, n, config) ==
    IF i > Len(v) THEN Sorted(TRUE, v, n)
    ELSE InsertedByDatetime(InsertTailByDatetime(v, i, n, config), i, config)

\* sort_by_datetime: [ok, v, n]
sort_by_datetime(tasks, config) == InsertionSortByDatetime(tasks, 2, 0, config)

Filtered(ok, v) == [ok |-> ok, v |-> v]

\* the closure of filter_not_in_future without is_overdue
NotInFutureWithoutOverdue(task, config, r1, r2) ==
    OrElse(is_today(task, config, r1), Bool(has_no_date(task)))

\* the closure of filter_not_in_future; r1 is the clock reading of is_today,
\* r2 the one of is_overdue
NotInFuture(task, config, r1, r2) ==
    OrElse(is_today(task, config, r1),
           OrElse(Bool(has_no_date(task)), is_overdue(task, config, r2)))

RECURSIVE FilterNotInFutureFrom(_, _, _, _, _)

KeptNotInFuture(p, tasks, k, acc, config, sched) ==
    IF ~p.ok THEN Filtered(FALSE, acc)
    ELSE FilterNotInFutureFrom(tasks, k + 1,
                               IF p.b THEN Append(acc, tasks[k]) ELSE acc,
                               config, sched)

FilterNotInFutureFrom(tasks, k, acc, config, sched) ==
    IF k > Len(tasks) THEN Filtered(TRUE, acc)
    ELSE KeptNotInFuture(NotInFuture(tasks[k], config,
                                     ReadClock(sched, 2 * (k - 1)),
                                     ReadClock(sched, 2 * (k - 1) + 1)),
                         tasks, k, acc, config, sched)

\* filter_not_in_future: [ok, v]; the Result it returns is always Ok
filter_not_in_future(tasks, config, sched) ==
    FilterNotInFutureFrom(tasks, 1, <<>>, config, sched)

\* the closure of filter_today_and_has_time without has_time
TodayAlone(task, config, r1) == is_today(task, config, r1)

\* the closure of filter_today_and_has_time
TodayAndHasTime(task, config, r1) ==
    AndThen(is_today(task, config, r1), has_time(task, config))

RECURSIVE FilterTodayAndHasTimeFrom(_, _, _, _, _)

KeptTodayAndHasTime(p, tasks, k, acc, config, sched) ==
    IF ~p.ok THEN Filtered(FALSE, acc)
    ELSE FilterTodayAndHasTimeFrom(tasks, k + 1,
                                   IF p.b THEN Append(acc, tasks[k]) ELSE acc,
                                   config, sched)

FilterTodayAndHasTimeFrom(tasks, k, acc, config, sched) ==
    IF k > Len(tasks) THEN Filtered(TRUE, acc)
    ELSE KeptTodayAndHasTime(TodayAndHasTime(tasks[k], config, ReadClock(sched, k - 1)),
                             tasks, k, acc, config, sched)

\* filter_today_and_has_time: [ok, v]
filter_today_and_has_time(tasks, config, sched) ==
    FilterTodayAndHasTimeFrom(tasks, 1, <<>>, config, sched)

\* ------------------------------------------------------------------------
\* src/src/main.rs, src/src/filters.rs: the commands `task complete` and
\* `task next`
\* ------------------------------------------------------------------------
\* a command's result: Ok(text) or Err(text), or the process unwound; `task`
\* is the task (for a report: the report) the text is made from, `n` the
\* count in it
Out(kind, text, task, n) == [kind |-> kind, text |-> text, task |-> task, n |-> n]

NoOut == Out("none", "", None, 0)

NothingToComplete ==
    "There is nothing to complete. A task must first be marked as 'next'."

\* task_complete sending the request whatever next_id is
task_complete_unguarded(config) ==
    [send |-> TRUE,
     id |-> IF IsSome(config.next_id) THEN Unwrap(config.next_id) ELSE "",
     err |-> ""]

\* task_complete: whether todoist::complete_task(&config) is called, and
\* the error returned when it is not
task_complete(config) ==
    IF IsSome(config.next_id)
    THEN [send |-> TRUE, id |-> Unwrap(config.next_id), err |-> ""]
    ELSE [send |-> FALSE, id |-> "", err |-> NothingToComplete]

Fetched(kind, task, remaining) == [kind |-> kind, task |-> task, remaining |-> remaining]

\* tasks.first().map(|task| (task.to_owned(), tasks.len()))
FirstAndLen(r) ==
    IF ~r.ok THEN Fetched("Panic", None, 0)
    ELSE IF Len(r.v) = 0 THEN Fetched("None", None, 0)
    ELSE Fetched("Some", Some(r.v[1]), Len(r.v))

\* fetch_next_task without the sort
fetch_next_task_unsorted(fetched, config, utcnow) ==
    IF ~fetched.ok THEN Fetched("Err", None, 0)
    ELSE FirstAndLen(Sorted(TRUE, fetched.v, 0))

\* fetch_next_task; fetched is what todoist::tasks_for_filter returned.  The
\* pass is made at one reading of the clock, where the builds with and
\* without overflow checks agree.
fetch_next_task(fetched, config, utcnow) ==
    IF ~fetched.ok THEN Fetched("Err", None, 0)
    ELSE FirstAndLen(sort_by_value(fetched.v, config, Steady(utcnow), TRUE))

FetchError == "fetch failed"
SaveError == "save failed"

\* the text of the task and the count, once the task is formatted
Remaining(line, task, n) ==
    IF line.ok THEN Out("Ok", "task(s) remaining", task, n)
    ELSE Out("Panic", "", None, 0)

\* the match of next_task: what it returns and the next_id it saves
NextTaskOf(f, config, saveOk, utcnow) ==
    CASE f.kind = "Panic" -> [outcome |-> Out("Panic", "", None, 0), save |-> None]
      [] f.kind = "Err" -> [outcome |-> Out("Err", FetchError, None, 0), save |-> None]
      [] f.kind = "None" ->
            [outcome |-> Out("Ok", "No tasks on list", None, 0), save |-> None]
      [] f.kind = "Some" ->
            IF ~saveOk THEN [outcome |-> Out("Err", SaveError, None, 0), save |-> None]
            ELSE [outcome |->
                      Remaining(fmt(Unwrap(f.task), config, Single, utcnow),
                                f.task, f.remaining),
                  save |-> Some(Unwrap(f.task).id)]

\* next_task: [outcome, save]
next_task(fetched, config, saveOk, utcnow) ==
    NextTaskOf(fetch_next_task(fetched, config, utcnow), config, saveOk, utcnow)

\* ------------------------------------------------------------------------
\* src/src/projects.rs: the command `project next --interactive`
\* ------------------------------------------------------------------------
SortedAt(f, config, utcnow) ==
    IF ~f.ok THEN Sorted(FALSE, <<>>, 0)
    ELSE sort_by_value(f.v, config, Steady(utcnow), TRUE)

\* fetch_next_item without filter_not_in_future
fetch_next_item_unfiltered(fetched, config, utcnow) ==
    IF ~fetched.ok THEN Fetched("Err", None, 0)
    ELSE FirstAndLen(SortedAt(Filtered(TRUE, fetched.v), config, utcnow))

\* fetch_next_item; fetched is what request::items_for_project returned
\* (an error of projects::project_id comes out the same way)
fetch_next_item(fetched, config, utcnow) ==
    IF ~fetched.ok THEN Fetched("Err", None, 0)
    ELSE FirstAndLen(SortedAt(filter_not_in_future(fetched.v, config, Steady(utcnow)),
                              config, utcnow))

LoadError == "load failed"
InputError == "input failed"

\* an iteration of next_item_interactive up to the prompt: it returns, or it
\* waits at the prompt of handle_item; save is the next_id it saved
Returns(outcome, save) ==
    [kind |-> "Return", outcome |-> outcome, save |-> save, item |-> None]

\* println!("{}", item.fmt(&config)) of handle_item
Printed(line, item) ==
    IF line.ok
    THEN [kind |-> "Prompt", outcome |-> NoOut, save |-> Some(Unwrap(item).id),
          item |-> item]
    ELSE Returns(Out("Panic", "", None, 0), Some(Unwrap(item).id))

IterationOf(f, config, saveOk, loadOk, utcnow) ==
    CASE f.kind = "Panic" -> Returns(Out("Panic", "", None, 0), None)
      [] f.kind = "Err" -> Returns(Out("Err", FetchError, None, 0), None)
      [] f.kind = "None" -> Returns(Out("Ok", "Done", None, 0), None)
      [] f.kind = "Some" ->
            IF ~saveOk THEN Returns(Out("Err", SaveError, None, 0), None)
            ELSE IF ~loadOk
            THEN Returns(Out("Err", LoadError, None, 0), Some(Unwrap(f.task).id))
            ELSE Printed(fmt(Unwrap(f.task), config, Single, utcnow), f.task)

\* the body of the loop of next_item_interactive, up to select_input
next_item_interactive(fetched, config, saveOk, loadOk, utcnow) ==
    IterationOf(fetch_next_item(fetched, config, utcnow), config, saveOk, loadOk,
                utcnow)

\* ------------------------------------------------------------------------
\* src/src/report.rs
\* ------------------------------------------------------------------------
DoneYesterday == "DoneYesterday"
DoneToday == "DoneToday"
DueTodayReport == "DueToday"
CommonReports == {DoneYesterday, DoneToday, DueTodayReport}

\* impl Display for CommonReports
Title(report_type) ==
    CASE report_type = DoneYesterday -> "Tasks completed yesterday"
      [] report_type = DoneToday -> "Tasks completed today"
      [] report_type = DueTodayReport -> "Tasks that need to be done today"

\* Result<Report, String>; ~ok: the process unwound
Report(ok, err, report_type, items) ==
    [ok |-> ok, err |-> err, report_type |-> report_type, items |-> items]

\* the completed items whose completion time lies, in the zone of the
\* context, `back` days before the current date
CompletedOn(completed, n, back) ==
    SelectSeq(completed,
              LAMBDA item : DateNaive(with_timezone(item.completed_at, n.datetime.tz))
                                = DateNaive(n.datetime) - back)

DoneReport(projectOk, completed, n, back, report_type) ==
    IF ~projectOk THEN Report(TRUE, "Failed to get project", report_type, <<>>)
    ELSE IF ~completed.ok
    THEN Report(TRUE, "Failed to get completed items for the project", report_type, <<>>)
    ELSE Report(n.ok, "", report_type, CompletedOn(completed.v, n, back))

\* Report::form_done_yesterday_report
form_done_yesterday_report(projectOk, completed, config, utcnow) ==
    DoneReport(projectOk, completed, now(config, utcnow), 1, DoneYesterday)

\* Report::form_done_today_report
form_done_today_report(projectOk, completed, config, utcnow) ==
    DoneReport(projectOk, completed, now(config, utcnow), 0, DoneToday)

\* items.into_iter().filter(|item| item.is_today(&config)).collect()
DueTodayItems(items, config, utcnow) ==
    Filtered(\A k \in 1..Len(items) : is_today(items[k], config, utcnow).ok,
             SelectSeq(items, LAMBDA item : is_today(item, config, utcnow).b))

DueReport(projectOk, fetched, f, report_type) ==
    IF ~projectOk THEN Report(TRUE, "Failed to get project", report_type, <<>>)
    ELSE IF ~fetched.ok
    THEN Report(TRUE, "Failed to get completed items for the project", report_type, <<>>)
    ELSE Report(f.ok, "", report_type, f.v)

\* Report::form_due_today_report
form_due_today_report(projectOk, fetched, config, utcnow) ==
    DueReport(projectOk, fetched,
              IF fetched.ok THEN DueTodayItems(fetched.v, config, utcnow)
              ELSE Filtered(TRUE, <<>>),
              DoneToday)

\* Report::new; completed and fetched are what
\* todoist::completed_items_for_project and todoist::items_for_project return
new(report_type, projectOk, completed, fetched, config, utcnow) ==
    CASE report_type = DoneYesterday ->
            form_done_yesterday_report(projectOk, completed, config, utcnow)
      [] report_type = DoneToday ->
            form_done_today_report(projectOk, completed, config, utcnow)
      [] report_type = DueTodayReport ->
            form_due_today_report(projectOk, fetched, config, utcnow)

\* Report::new(...)?.print(): the title in the header and the number of
\* item lines under it, with the report the text was made from
print(requested, r) ==
    IF ~r.ok THEN Out("Panic", "", None, 0)
    ELSE IF r.err # "" THEN Out("Err", r.err, None, 0)
    ELSE Out("Ok", Title(r.report_type),
             Some([requested |-> requested, report_type |-> r.report_type]),
             Len(r.items))

\* ------------------------------------------------------------------------
\* Inputs: raw due strings, timezone names, clock readings
\* ------------------------------------------------------------------------
\* "2024-01-01"
DueToday == <<"2", "0", "2", "4", "-", "0", "1", "-", "0", "1">>

\* "2024-01-02"
DueTomorrow == <<"2", "0", "2", "4", "-", "0", "1", "-", "0", "2">>

\* "2023-12-31"
DueYesterday == <<"2", "0", "2", "3", "-", "1", "2", "-", "3", "1">>

\* "2020-12-20"
DueLongAgo == <<"2", "0", "2", "0", "-", "1", "2", "-", "2", "0">>

\* "2024-13-45"
DueBadDate == <<"2", "0", "2", "4", "-", "1", "3", "-", "4", "5">>

\* "2{invalid"
DueInvalid == <<"2", "{", "i", "n", "v", "a", "l", "i", "d">>

\* "2024-01-02T00:14:30Z"
DueUtcIn15 == <<"2", "0", "2", "4", "-", "0", "1", "-", "0", "2", "T", "0", "0", ":", "1", "4", ":", "3", "0", "Z">>

\* "2024-01-02T00:15:00Z"
DueUtcIn15m30 == <<"2", "0", "2", "4", "-", "0", "1", "-", "0", "2", "T", "0", "0", ":", "1", "5", ":", "0", "0", "Z">>

\* "2024-01-01T23:43:45Z"
DueUtc15m45Ago == <<"2", "0", "2", "4", "-", "0", "1", "-", "0", "1", "T", "2", "3", ":", "4", "3", ":", "4", "5", "Z">>

\* "2024-01-02T00:15:30Z"
DueUtcIn16 == <<"2", "0", "2", "4", "-", "0", "1", "-", "0", "2", "T", "0", "0", ":", "1", "5", ":", "3", "0", "Z">>

\* "2021-02-27T19:41:56Z"
DueUtcOld == <<"2", "0", "2", "1", "-", "0", "2", "-", "2", "7", "T", "1", "9", ":", "4", "1", ":", "5", "6", "Z">>

\* "2024-01-01T12:10:00+"
DueNoZone20 == <<"2", "0", "2", "4", "-", "0", "1", "-", "0", "1", "T", "1", "2", ":", "1", "0", ":", "0", "0", "+">>

\* "2024-01-01T16:10:00"
DueLocal1610 == <<"2", "0", "2", "4", "-", "0", "1", "-", "0", "1", "T", "1", "6", ":", "1", "0", ":", "0", "0">>

\* "2024-03-10T02:30:00"
DueLocalGap == <<"2", "0", "2", "4", "-", "0", "3", "-", "1", "0", "T", "0", "2", ":", "3", "0", ":", "0", "0">>

\* "2024-01-01T25:00:00"
DueLocalBad == <<"2", "0", "2", "4", "-", "0", "1", "-", "0", "1", "T", "2", "5", ":", "0", "0", ":", "0", "0">>

\* "2024-01-01T23:50:00Z"
DueUtcLate == <<"2", "0", "2", "4", "-", "0", "1", "-", "0", "1", "T", "2", "3", ":", "5", "0", ":", "0", "0", "Z">>

\* "2024-01-01T15:50:00"
DueLocal1550 == <<"2", "0", "2", "4", "-", "0", "1", "-", "0", "1", "T", "1", "5", ":", "5", "0", ":", "0", "0">>

\* the due strings of the single-task specification; the date-times lie
\* around 2024-01-01T23:59:30Z
DueStrings ==
    {DueToday, DueTomorrow, DueYesterday, DueLongAgo, DueBadDate, DueInvalid,
     DueUtcIn15, DueUtcIn15m30, DueUtc15m45Ago, DueUtcIn16, DueUtcOld,
     DueNoZone20, DueLocal1610, DueLocalGap, DueLocalBad}

\* a name chrono_tz does not know
UnknownZone == "Mars/Olympus"

TaskZones == {None, Some(LosAngeles), Some(UnknownZone)}
ConfigZones == {None, Some(LosAngeles), Some(Tokyo), Some(UnknownZone)}

Instant(y, m, d, hh, mm, ss) ==
    DaysFromCivil(y, m, d) * SecsPerDay + hh * 3600 + mm * SecsPerMinute + ss

\* 2024-01-01T23:59:30Z, half a minute before the date changes in UTC, and
\* 2024-01-01T07:59:30Z, half a minute before it changes in
\* America/Los_Angeles
Clocks == {Instant(2024, 1, 1, 23, 59, 30), Instant(2024, 1, 1, 7, 59, 30)}

\* how far the clock moves in one step, in seconds
ClockSteps == {45}

DateInfos ==
    [date : DueStrings, is_recurring : BOOLEAN, timezone : TaskZones]

Dues == {None} \cup {Some(d) : d \in DateInfos}

\* the tasks of the single-task specification
Tasks == [id : {"222"}, priority : Priorities, due : Dues]

Configs == [timezone : ConfigZones, next_id : {None}]

Task(id, priority, due) == [id |-> id, priority |-> priority, due |-> due]

DateInfo(date, rec, tz) == [date |-> date, is_recurring |-> rec, timezone |-> tz]

\* the tasks of the batch specification
Pool ==
    {Task("1", PriorityMedium, None),
     Task("2", PriorityMedium, None),
     Task("3", PriorityHigh, Some(DateInfo(DueTomorrow, FALSE, None))),
     Task("4", PriorityNone, Some(DateInfo(DueInvalid, FALSE, None))),
     Task("5", PriorityLow, Some(DateInfo(DueUtcLate, TRUE, None))),
     Task("6", PriorityLow, Some(DateInfo(DueLocalBad, FALSE, None))),
     Task("7", PriorityMedium, Some(DateInfo(DueLocal1610, FALSE, Some(LosAngeles)))),
     Task("8", PriorityHigh, Some(DateInfo(DueLocal1550, FALSE, Some(LosAngeles)))),
     Task("9", PriorityNone, Some(DateInfo(DueToday, FALSE, None)))}

BatchConfigs == [timezone : {None, Some(LosAngeles)}, next_id : {None}]

BatchClocks == {Instant(2024, 1, 1, 23, 59, 30)}

SeqsUpTo(S, n) == UNION {[1..k -> S] : k \in 0..n}

\* ------------------------------------------------------------------------
\* State
\* ------------------------------------------------------------------------
VARIABLES
    tasks,    \* the task collection handed to the engine
    config,   \* the Config
    clock,    \* what Utc::now() returns
    ticks,    \* how often the clock has moved
    call,     \* the last call: [op, idx, sched, checked, filter]
    ret,      \* what it returned: [ok, info, tz, n, tasks, b, line]; ~ok: it
              \* panicked
    saved,    \* the next_id of the configuration file, an Option
    sent,     \* the ids completion requests were sent for, oldest first
    pc,       \* where the running command stands
    shown,    \* the task next_item_interactive printed last, an Option
    outcome   \* what the last command returned

commandVars == <<saved, sent, pc, shown, outcome>>

vars == <<tasks, config, clock, ticks, call, ret, saved, sent, pc, shown, outcome>>

NoCall == "none"
OpDatetimeinfo == "datetimeinfo"
OpDateValue == "date_value"
OpValue == "value"
OpSortByValue == "sort_by_value"
OpIsToday == "is_today"
OpIsOverdue == "is_overdue"
OpHasTime == "has_time"
OpFilter == "filter"
OpSortByDatetime == "sort_by_datetime"
OpFilterNotInFuture == "filter_not_in_future"
OpFilterTodayAndHasTime == "filter_today_and_has_time"
NoFilter == "none"

\* the clock over a call that reads it in `slots` places: it stands still,
\* or (while the clock may still move) it moves once between two readings
Schedules(c, slots, mayMove) ==
    {Steady(c)} \cup
    (IF mayMove
     THEN [base : {c}, jump : 1..(slots - 1), delta : ClockSteps]
     ELSE {})

NoLine == [prefix |-> "", content |-> "", due |-> NoDue]

Ret(ok, info, tz, n, ts) ==
    [ok |-> ok, info |-> info, tz |-> tz, n |-> n, tasks |-> ts, b |-> FALSE,
     line |-> NoLine]

NoInfo == Info(NoCall, 0, NoInstant, FALSE, NoError)

InitCall ==
    [op |-> NoCall, idx |-> 0, sched |-> Steady(0), checked |-> FALSE,
     filter |-> NoFilter]

InitRet == Ret(TRUE, NoInfo, UTC, 0, <<>>)

Idle == "idle"
Prompt == "prompt"
Loop == "loop"

\* no command has run: the configuration file holds no next_id
InitCommand ==
    /\ saved = None
    /\ sent = <<>>
    /\ pc = Idle
    /\ shown = None
    /\ outcome = NoOut

Init ==
    /\ tasks \in [1..1 -> Tasks]
    /\ config \in Configs
    /\ clock \in Clocks
    /\ ticks = 0
    /\ call = InitCall
    /\ ret = InitRet
    /\ InitCommand

InitBatch ==
    /\ tasks \in SeqsUpTo(Pool, MaxTasks)
    /\ config \in BatchConfigs
    /\ clock \in BatchClocks
    /\ ticks = 0
    /\ call = InitCall
    /\ ret = InitRet
    /\ InitCommand

\* One run of the program makes one call of the engine.  Before it, the
\* wall clock moves.
Tick ==
    /\ call.op = NoCall
    /\ ticks < MaxTicks
    /\ \E d \in ClockSteps : clock' = clock + d
    /\ ticks' = ticks + 1
    /\ UNCHANGED <<tasks, config, call, ret>>
    /\ UNCHANGED commandVars

After(sched) ==
    /\ clock' = sched.base + sched.delta
    /\ ticks' = IF sched.delta > 0 THEN ticks + 1 ELSE ticks
    /\ UNCHANGED <<tasks, config>>
    /\ UNCHANGED commandVars

Called(op, i, sched, checked) ==
    call' = [op |-> op, idx |-> i, sched |-> sched, checked |-> checked,
             filter |-> NoFilter]

Resolved(info, z) == ret' = Ret(info.kind # PanicKind, info, z.tz, 0, <<>>)

\* task.datetimeinfo(&config)
Datetimeinfo(i) ==
    /\ call.op = NoCall
    /\ Called(OpDatetimeinfo, i, Steady(clock), FALSE)
    /\ Resolved(datetimeinfo(tasks[i], config), datetimeinfo_tz(tasks[i], config))
    /\ After(Steady(clock))

Valued(r) == ret' = Ret(r.ok, NoInfo, UTC, r.v, <<>>)

\* task.date_value(&config)
DateValue(i) ==
    /\ call.op = NoCall
    /\ \E sched \in Schedules(clock, 2, ticks < MaxTicks), checked \in BOOLEAN :
        /\ Called(OpDateValue, i, sched, checked)
        /\ Valued(date_value(tasks[i], config, ReadClock(sched, 0),
                             ReadClock(sched, 1), checked))
        /\ After(sched)

\* task.value(&config)
Value(i) ==
    /\ call.op = NoCall
    /\ \E sched \in Schedules(clock, 2, ticks < MaxTicks), checked \in BOOLEAN :
        /\ Called(OpValue, i, sched, checked)
        /\ Valued(value(tasks[i], config, ReadClock(sched, 0),
                        ReadClock(sched, 1), checked))
        /\ After(sched)

\* the readings of the clock a sort_by_value pass over n tasks can make
SortSlots(n) == 2 * n * (n - 1)

Ranked(r) == ret' = Ret(r.ok, NoInfo, UTC, 0, r.v)

\* tasks::sort_by_value(tasks, &config)
SortByValue ==
    /\ call.op = NoCall
    /\ \E sched \in Schedules(clock, SortSlots(Len(tasks)), ticks < MaxTicks),
          checked \in BOOLEAN :
        /\ Called(OpSortByValue, 0, sched, checked)
        /\ Ranked(sort_by_value(tasks, config, sched, checked))
        /\ After(sched)

Judged(r) == ret' = [Ret(r.ok, NoInfo, UTC, 0, <<>>) EXCEPT !.b = r.b]

\* task.is_today(&config)
IsToday(i) ==
    /\ call.op = NoCall
    /\ Called(OpIsToday, i, Steady(clock), FALSE)
    /\ Judged(is_today(tasks[i], config, clock))
    /\ After(Steady(clock))

\* task.is_overdue(&config)
IsOverdue(i) ==
    /\ call.op = NoCall
    /\ Called(OpIsOverdue, i, Steady(clock), FALSE)
    /\ Judged(is_overdue(tasks[i], config, clock))
    /\ After(Steady(clock))

\* task.has_time(&config)
HasTime(i) ==
    /\ call.op = NoCall
    /\ Called(OpHasTime, i, Steady(clock), FALSE)
    /\ Judged(has_time(tasks[i], config))
    /\ After(Steady(clock))

\* task.filter(&config, &f)
Filter(i) ==
    /\ call.op = NoCall
    /\ \E f \in TaskFilters :
        /\ call' = [op |-> OpFilter, idx |-> i, sched |-> Steady(clock),
                    checked |-> FALSE, filter |-> f]
        /\ Judged(filter(tasks[i], config, f, clock))
    /\ After(Steady(clock))

OpFmt == "fmt"

Rendered(r) == ret' = [Ret(r.ok, NoInfo, UTC, 0, <<>>) EXCEPT !.line = r.v]

\* task.fmt(&config, format)
Fmt(i) ==
    /\ call.op = NoCall
    /\ Called(OpFmt, i, Steady(clock), FALSE)
    /\ \E format \in FormatTypes : Rendered(fmt(tasks[i], config, format, clock))
    /\ After(Steady(clock))

\* tasks::sort_by_datetime(tasks, &config)
SortByDatetime ==
    /\ call.op = NoCall
    /\ Called(OpSortByDatetime, 0, Steady(clock), FALSE)
    /\ Ranked(sort_by_datetime(tasks, config))
    /\ After(Steady(clock))

\* tasks::filter_not_in_future(tasks, &config)
FilterNotInFuture ==
    /\ call.op = NoCall
    /\ \E sched \in Schedules(clock, 2 * Len(tasks), ticks < MaxTicks) :
        /\ Called(OpFilterNotInFuture, 0, sched, FALSE)
        /\ Ranked(filter_not_in_future(tasks, config, sched))
        /\ After(sched)

\* tasks::filter_today_and_has_time(tasks, &config)
FilterTodayAndHasTime ==
    /\ call.op = NoCall
    /\ \E sched \in Schedules(clock, Len(tasks), ticks < MaxTicks) :
        /\ Called(OpFilterTodayAndHasTime, 0, sched, FALSE)
        /\ Ranked(filter_today_and_has_time(tasks, config, sched))
        /\ After(sched)

\* fetch_config: the Config of a command, read from the configuration file
fetch_config == [config EXCEPT !.next_id = saved]

\* the remote list without the task of that id
Without(ts, id) == SelectSeq(ts, LAMBDA t : t.id # id)

\* todoist::complete_task(&config): the request for the task goes out; when
\* the remote accepts it, the task leaves the remote list and the program
\* may clear the next_id of the configuration file
Completed(id, accepted, cleared) ==
    /\ sent' = Append(sent, id)
    /\ tasks' = IF accepted THEN Without(tasks, id) ELSE tasks
    /\ saved' = IF accepted /\ cleared THEN None ELSE saved
    /\ outcome' = IF accepted THEN Out("Ok", "completed", None, 0)
                  ELSE Out("Err", "request failed", None, 0)

Refused(c) ==
    /\ outcome' = Out("Err", c.err, None, 0)
    /\ UNCHANGED <<tasks, saved, sent>>

Complete(c) ==
    IF c.send
    THEN \E accepted, cleared \in BOOLEAN : Completed(c.id, accepted, cleared)
    ELSE Refused(c)

\* the command `task complete`
TaskComplete ==
    /\ pc = Idle
    /\ Len(sent) < MaxRequests
    /\ config' = fetch_config
    /\ Complete(task_complete(fetch_config))
    /\ UNCHANGED <<clock, ticks, call, ret, pc, shown>>

Stored(r) ==
    /\ outcome' = r.outcome
    /\ saved' = IF IsSome(r.save) THEN r.save ELSE saved

\* the command `task next`; todoist::tasks_for_filter returns the remote
\* list or fails, and Config::save succeeds or fails
NextTask ==
    /\ pc = Idle
    /\ config' = fetch_config
    /\ \E fetchOk, saveOk \in BOOLEAN :
        Stored(next_task(IF fetchOk THEN Ok(tasks) ELSE Failed, fetch_config,
                         saveOk, clock))
    /\ UNCHANGED <<tasks, clock, ticks, call, ret, sent, pc, shown>>

\* the Config an iteration of the loop starts with: the one the command was
\* given, later the one the iteration before reloaded
LoopConfig == IF pc = Idle THEN fetch_config ELSE config

\* config.set_next_id(item.id.clone()).save()? and Config::load(&config.path)?
Iterated(cfg, r) ==
    /\ saved' = IF IsSome(r.save) THEN r.save ELSE saved
    /\ config' = IF r.kind = "Prompt" THEN [cfg EXCEPT !.next_id = saved'] ELSE cfg
    /\ shown' = IF r.kind = "Prompt" THEN r.item ELSE shown
    /\ pc' = IF r.kind = "Prompt" THEN Prompt ELSE Idle
    /\ outcome' = r.outcome

\* next_item_interactive: one pass through the loop body up to the prompt
Iterate ==
    /\ pc \in {Idle, Loop}
    /\ \E fetchOk, saveOk, loadOk \in BOOLEAN :
        Iterated(LoopConfig,
                 next_item_interactive(IF fetchOk THEN Ok(tasks) ELSE Failed,
                                       LoopConfig, saveOk, loadOk, clock))
    /\ UNCHANGED <<tasks, clock, ticks, call, ret, sent>>

\* request::complete_item(config): the request for config.next_id goes out;
\* accepted, the task leaves the remote list and the loop goes on
CompleteItem(accepted, cleared) ==
    /\ Len(sent) < MaxRequests
    /\ sent' = Append(sent, Unwrap(config.next_id))
    /\ tasks' = IF accepted THEN Without(tasks, Unwrap(config.next_id)) ELSE tasks
    /\ saved' = IF accepted /\ cleared THEN None ELSE saved
    /\ pc' = IF accepted THEN Loop ELSE Idle
    /\ outcome' = IF accepted THEN outcome ELSE Out("Err", "request failed", None, 0)

Leave(o) ==
    /\ outcome' = o
    /\ pc' = Idle
    /\ UNCHANGED <<tasks, saved, sent>>

\* handle_item after the print: what config::select_input returns
Choose ==
    /\ pc = Prompt
    /\ \/ \E accepted, cleared \in BOOLEAN : CompleteItem(accepted, cleared)
       \/ Leave(Out("Ok", "Exited", None, 0))
       \/ Leave(Out("Err", InputError, None, 0))
    /\ UNCHANGED <<config, clock, ticks, call, ret, shown>>

\* the steps of a running next_item_interactive
LoopStep == (pc = Loop /\ Iterate) \/ Choose

\* what todoist::completed_items_for_project returns: nothing, or an item
\* completed an hour ago and one completed a day and an hour ago
CompletedLists ==
    {<<>>,
     <<[completed_at |-> [utc |-> clock - 3600, tz |-> UTC]],
       [completed_at |-> [utc |-> clock - SecsPerDay - 3600, tz |-> UTC]]>>}

\* the command `project report`: Report::new(config, project, report_type)
\* and print()
ReportCommand ==
    /\ pc = Idle
    /\ config' = fetch_config
    /\ \E report_type \in CommonReports, projectOk, fetchOk \in BOOLEAN,
          completed \in CompletedLists :
        outcome' = print(report_type,
                         new(report_type, projectOk,
                             IF fetchOk THEN Ok(completed) ELSE Failed,
                             IF fetchOk THEN Ok(tasks) ELSE Failed,
                             fetch_config, clock))
    /\ UNCHANGED <<tasks, clock, ticks, call, ret, saved, sent, pc, shown>>

Next ==
    \/ Tick
    \/ \E i \in 1..Len(tasks) : Datetimeinfo(i)
    \/ \E i \in 1..Len(tasks) : DateValue(i)
    \/ \E i \in 1..Len(tasks) : Value(i)
    \/ \E i \in 1..Len(tasks) : IsToday(i)
    \/ \E i \in 1..Len(tasks) : IsOverdue(i)
    \/ \E i \in 1..Len(tasks) : HasTime(i)
    \/ \E i \in 1..Len(tasks) : Filter(i)
    \/ \E i \in 1..Len(tasks) : Fmt(i)

NextBatch ==
    \/ Tick
    \/ SortByValue
    \/ SortByDatetime
    \/ FilterNotInFuture
    \/ FilterTodayAndHasTime

Spec == Init /\ [][Next]_vars

SpecBatch == InitBatch /\ [][NextBatch]_vars

\* the remote lists of the command specification: no task twice
Distinct(ts) == \A i, j \in 1..Len(ts) : ts[i] = ts[j] => i = j

\* the tasks of the remote list: tasks 1, 3, 4, 6 and 9 of the pool
CommandPool == {t \in Pool : t.id \in {"1", "3", "4", "6", "9"}}

InitCommands ==
    /\ tasks \in {ts \in SeqsUpTo(CommandPool, MaxTasks) : Distinct(ts)}
    /\ config = [timezone |-> None, next_id |-> None]
    /\ clock \in BatchClocks
    /\ ticks = 0
    /\ call = InitCall
    /\ ret = InitRet
    /\ InitCommand

NextCommands ==
    \/ Tick
    \/ TaskComplete
    \/ NextTask
    \/ Iterate
    \/ Choose

\* a running loop goes on: the process is scheduled, and the user answers
\* the prompt
SpecCommands == InitCommands /\ [][NextCommands]_vars /\ WF_vars(LoopStep)

NextReport ==
    \/ Tick
    \/ ReportCommand

SpecReport == InitCommands /\ [][NextReport]_vars

\* ------------------------------------------------------------------------
\* Properties
\* ------------------------------------------------------------------------
Returned(op) == call.op = op /\ ret.ok

\* the two clock readings of a call on one task
R1 == ReadClock(call.sched, 0)
R2 == ReadClock(call.sched, 1)

Arg == tasks[call.idx]

ArgDue == Unwrap(Arg.due)

\* the value of task t when every clock reading of its evaluation is `at`
ValueAt(t, at) == value(t, config, at, at, call.checked).v

\* over the pass every task has one value: the clock stood still, or its
\* movement changed no task's value
OneValuePerTask ==
    \A i \in 1..Len(tasks) :
        ValueAt(tasks[i], call.sched.base)
            = ValueAt(tasks[i], call.sched.base + call.sched.delta)

PassValue(t) == ValueAt(t, call.sched.base)

Perms(n) == {p \in [1..n -> 1..n] : \A i, j \in 1..n : p[i] = p[j] => i = j}

\* C1: sort_by_value returns the tasks it was given ordered by value,
\* highest first; tasks of equal value keep the order they had in the
\* input; the first task of the output has the highest value of all.
C1_SortByValueStableDescending ==
    (Returned(OpSortByValue) /\ OneValuePerTask) =>
        /\ Len(ret.tasks) = Len(tasks)
        /\ \E p \in Perms(Len(tasks)) :
            /\ \A i \in 1..Len(tasks) : ret.tasks[i] = tasks[p[i]]
            /\ \A i, j \in 1..Len(tasks) :
                i < j =>
                    /\ PassValue(tasks[p[i]]) >= PassValue(tasks[p[j]])
                    /\ PassValue(tasks[p[i]]) = PassValue(tasks[p[j]]) => p[i] < p[j]
        /\ \A i \in 1..Len(tasks) : PassValue(ret.tasks[1]) >= PassValue(tasks[i])

\* a pass over two tasks that had to exchange them
C1_Witness ==
    /\ Returned(OpSortByValue)
    /\ OneValuePerTask
    /\ Len(tasks) = 2
    /\ ret.tasks = <<tasks[2], tasks[1]>>
    /\ PassValue(tasks[2]) > PassValue(tasks[1])

\* the lookup of the claim
PriorityLookup(p) ==
    CASE p = PriorityNone -> 2 [] p = PriorityLow -> 1
      [] p = PriorityMedium -> 3 [] p = PriorityHigh -> 4

\* C2: value(task) is date_value(task) plus priority_value(task), and
\* priority_value is None -> 2, Low -> 1, Medium -> 3, High -> 4 whatever
\* the due field and the context are.
C2_ValueIsDatePlusPriority ==
    Returned(OpValue) =>
        /\ ret.n = date_value(Arg, config, R1, R2, call.checked).v
                     + PriorityLookup(Arg.priority)
        /\ \A due \in Dues :
            priority_value([Arg EXCEPT !.due = due]) = PriorityLookup(Arg.priority)

\* value returned 152 for a task of priority None that is due today
C2_Witness ==
    /\ Returned(OpValue)
    /\ Arg.priority = PriorityNone
    /\ IsSome(Arg.due)
    /\ ret.n = 152

\* C3: a task without a due field has date_value 80, whatever its priority,
\* the time zone of the context and the current instant.
C3_NoDueIsEighty ==
    (Returned(OpDateValue) /\ ~IsSome(Arg.due)) => ret.n = 80

\* date_value of an undated task of priority High, in a context set to
\* Asia/Tokyo, while the clock moved
C3_Witness ==
    /\ Returned(OpDateValue)
    /\ ~IsSome(Arg.due)
    /\ Arg.priority = PriorityHigh
    /\ config.timezone = Some(Tokyo)
    /\ call.sched.delta > 0
    /\ ret.n = 80

\* the call was made on a task that resolves to a Date
ArgIsDate == IsSome(Arg.due) /\ datetimeinfo(Arg, config).kind = DateKind

ArgDate == datetimeinfo(Arg, config).date

\* the current date of the context, as the call read it first
Today == today_date(config, R1).date

ArgInfo == datetimeinfo(Arg, config)

ArgIsDateTime == IsSome(Arg.due) /\ ArgInfo.kind = DateTimeKind

Abs(x) == IF x < 0 THEN 0 - x ELSE x

\* the seconds between the task's instant and the instant the call read
Gap == Abs(ArgInfo.datetime.utc - R1)

RecurrenceTerm == IF ArgDue.is_recurring THEN 0 ELSE 50

\* C6: for a task resolving to a DateTime, date_value is 200 plus the
\* recurrence term exactly when the task's instant is within 15 minutes
\* before or after the current instant, and only the recurrence term when
\* the gap exceeds 15 minutes, 15 minutes plus some seconds included.
C6_DateTimeWindow ==
    (Returned(OpDateValue) /\ ArgIsDateTime) =>
        /\ Gap <= 15 * SecsPerMinute => ret.n = 200 + RecurrenceTerm
        /\ Gap > 15 * SecsPerMinute => ret.n = RecurrenceTerm

\* resolution of the due field of t fails: it yields an error or unwinds
ResolutionFails(t) ==
    IsSome(t.due) /\ datetimeinfo(t, config).kind \in {ErrKind, PanicKind}

\* the value the claim ranks t by
RankValue(t) ==
    IF ResolutionFails(t) THEN 50 + PriorityLookup(t.priority) ELSE PassValue(t)

\* C7: when resolution of the due field of a task of the batch fails, the
\* pass is not aborted, the task is in the output of sort_by_value, and the
\* output is ordered with that task at 50 + priority_value and every other
\* task at its own value.
C7_FailedResolutionKeepsBatch ==
    (call.op = OpSortByValue /\ call.sched.delta = 0) =>
        \A i \in 1..Len(tasks) :
            ResolutionFails(tasks[i]) =>
                /\ ret.ok
                /\ \E k \in 1..Len(ret.tasks) : ret.tasks[k] = tasks[i]
                /\ \A k, m \in 1..Len(ret.tasks) :
                    k < m => RankValue(ret.tasks[k]) >= RankValue(ret.tasks[m])

\* the zones of the call are names chrono_tz knows
ZonesKnown ==
    /\ IsSome(config.timezone) => Unwrap(config.timezone) \in KnownZones
    /\ (IsSome(Arg.due) /\ IsSome(ArgDue.timezone)) =>
            Unwrap(ArgDue.timezone) \in KnownZones

ExpectedZone ==
    IF IsSome(Arg.due) /\ IsSome(ArgDue.timezone) THEN Unwrap(ArgDue.timezone)
    ELSE IF IsSome(config.timezone) THEN Unwrap(config.timezone)
    ELSE UTC

\* the wall clock of dt in zone tz, in seconds since 1970-01-01T00:00:00
WallClock(dt, tz) == dt.utc + OffsetAt(tz, dt.utc)

\* C9: a 19-character due string resolves to a DateTime anchored in the
\* resolved zone, whose wall clock there is the one the string spells; a
\* 20-character string resolves to a DateTime anchored in UTC whose wall
\* clock in UTC is the one the string spells, whatever the zones of the due
\* field and of the context are.
C9_AnchoredInZone ==
    (Returned(OpDatetimeinfo) /\ IsSome(Arg.due)) =>
        /\ Len(ArgDue.date) = 19 =>
            /\ ret.info.kind = DateTimeKind
            /\ ret.info.datetime.tz = ExpectedZone
            /\ Some(WallClock(ret.info.datetime, ExpectedZone))
                    = ParseNaiveDateTime(ArgDue.date, FALSE)
        /\ Len(ArgDue.date) = 20 =>
            /\ ret.info.kind = DateTimeKind
            /\ ret.info.datetime.tz = UTC
            /\ Some(ret.info.datetime.utc) = ParseNaiveDateTime(ArgDue.date, TRUE)

\* "2024-01-02T00:14:30Z" on a due field set to America/Los_Angeles, in a
\* context set to Asia/Tokyo, resolved to that instant of UTC
C9_Witness ==
    /\ Returned(OpDatetimeinfo)
    /\ IsSome(Arg.due)
    /\ ArgDue.date = DueUtcIn15
    /\ ArgDue.timezone = Some(LosAngeles)
    /\ config.timezone = Some(Tokyo)
    /\ ret.info.datetime = [utc |-> Instant(2024, 1, 2, 0, 14, 30), tz |-> UTC]

\* C10: the zone used to resolve a due field is the zone of the due field
\* if it has one, else the zone of the context if it has one, else UTC; it
\* is the zone a 19-character string is anchored in.
C10_TimezonePrecedence ==
    Returned(OpDatetimeinfo) =>
        /\ ret.tz = ExpectedZone
        /\ (IsSome(Arg.due) /\ Len(ArgDue.date) = 19) =>
                ret.info.datetime.tz = ExpectedZone

\* "2024-01-01T16:10:00" on a due field set to America/Los_Angeles, in a
\* context set to Asia/Tokyo, is ten past four in Los Angeles
C10_Witness ==
    /\ Returned(OpDatetimeinfo)
    /\ IsSome(Arg.due)
    /\ ArgDue.date = DueLocal1610
    /\ ArgDue.timezone = Some(LosAngeles)
    /\ config.timezone = Some(Tokyo)
    /\ ret.tz = LosAngeles
    /\ ret.info.datetime = [utc |-> Instant(2024, 1, 2, 0, 10, 0), tz |-> LosAngeles]

\* C11: with valid zone names resolution always returns, one of NoDateTime,
\* Date, DateTime or an error; a string of 10, 19 or 20 characters that is
\* not a date or date-time, and a 19-character local time that does not
\* exist or is ambiguous in the resolved zone, give an error.
C11_ResolutionIsTotal ==
    (call.op = OpDatetimeinfo /\ ZonesKnown) =>
        /\ ret.ok
        /\ ret.info.kind \in {NoDateTimeKind, DateKind, DateTimeKind, ErrKind}
        /\ (IsSome(Arg.due) /\ Len(ArgDue.date) = 10
                /\ ~IsSome(ParseDatePart(ArgDue.date))) => ret.info.kind = ErrKind
        /\ (IsSome(Arg.due) /\ Len(ArgDue.date) \in {19, 20}
                /\ ~IsSome(ParseNaiveDateTime(ArgDue.date, Len(ArgDue.date) = 20))) =>
            ret.info.kind = ErrKind
        /\ (IsSome(Arg.due) /\ Len(ArgDue.date) = 19
                /\ IsSome(ParseNaiveDateTime(ArgDue.date, FALSE))
                /\ Cardinality(LocalCandidates(
                        Unwrap(ParseNaiveDateTime(ArgDue.date, FALSE)),
                        ExpectedZone)) # 1) =>
            ret.info.kind = ErrKind

\* C12: when the zone name resolution takes (of the due field, else of the
\* context) is not a zone chrono_tz knows, resolution returns an error
\* value to the caller: it neither unwinds nor resolves the task in UTC.
C12_UnknownZoneIsAnError ==
    (call.op = OpDatetimeinfo /\ ExpectedZone \notin KnownZones) =>
        /\ ret.ok
        /\ ret.info.kind = ErrKind

\* t resolves to a DateTime, and the instant it resolves to
HasInstant(t) == IsSome(t.due) /\ datetimeinfo(t, config).kind = DateTimeKind

InstantOf(t) == datetimeinfo(t, config).datetime.utc

\* a comes before b in the order of the claim, i and j their places in the
\* input
DatetimeOrdered(a, i, b, j) ==
    IF ~HasInstant(a) THEN HasInstant(b) \/ i < j
    ELSE /\ HasInstant(b)
         /\ InstantOf(a) <= InstantOf(b)
         /\ InstantOf(a) = InstantOf(b) => i < j

\* ret.tasks is the input in the order of the claim
InDatetimeOrder ==
    /\ Len(ret.tasks) = Len(tasks)
    /\ \E p \in Perms(Len(tasks)) :
        /\ \A i \in 1..Len(tasks) : ret.tasks[i] = tasks[p[i]]
        /\ \A i, j \in 1..Len(tasks) :
            i < j => DatetimeOrdered(tasks[p[i]], p[i], tasks[p[j]], p[j])

\* C13: sort_by_datetime returns the tasks without an instant (no due
\* field, date-only, unresolvable) first, in input order, then the tasks
\* with an instant in ascending order of the instant, equal instants in
\* input order.
C13_SortByDatetimeOrder ==
    call.op = OpSortByDatetime => (ret.ok /\ InDatetimeOrder)

\* the same for the passes that return
C13_ReturnedInDatetimeOrder ==
    Returned(OpSortByDatetime) => InDatetimeOrder

\* the zone of the context: the one it names, else UTC
ExpectedContextZone ==
    IF IsSome(config.timezone) THEN Unwrap(config.timezone) ELSE UTC

\* the calendar date of the DateTime the task resolves to, in the zone the
\* DateTime is anchored in
ArgDateComponent == DateNaive(ArgInfo.datetime)

\* the current date of the context at the one clock reading of the call
TodayAtCall == DateNaive([utc |-> call.sched.base, tz |-> ExpectedContextZone])

\* what the claims call "today" and "overdue" for the task of the call
ArgDueToday ==
    /\ IsSome(Arg.due)
    /\ \/ ArgInfo.kind = DateKind /\ ArgInfo.date = TodayAtCall
       \/ ArgInfo.kind = DateTimeKind /\ ArgDateComponent = TodayAtCall

ArgDueBefore ==
    /\ IsSome(Arg.due)
    /\ \/ ArgInfo.kind = DateKind /\ ArgInfo.date < TodayAtCall
       \/ ArgInfo.kind = DateTimeKind /\ ArgDateComponent < TodayAtCall

\* C14: is_today returns, and it returns true exactly when the task
\* resolves to a Date equal to the current date of the context or to a
\* DateTime whose date component equals it; false without a due field, for
\* any other date, and when resolution fails.
C14_IsToday ==
    (call.op = OpIsToday /\ ZonesKnown) => (ret.ok /\ ret.b = ArgDueToday)

\* the same for the calls that return
C14_ReturnedIsToday ==
    Returned(OpIsToday) => ret.b = ArgDueToday

\* C15: is_overdue returns, and it returns true exactly when the task
\* resolves to a Date, or to a DateTime whose date component is, strictly
\* before the current date of the context; false without a due field, for a
\* task due today whatever its time of day, for a later date, and when
\* resolution fails.
C15_IsOverdue ==
    (call.op = OpIsOverdue /\ ZonesKnown) => (ret.ok /\ ret.b = ArgDueBefore)

\* the same for the calls that return
C15_ReturnedIsOverdue ==
    Returned(OpIsOverdue) => ret.b = ArgDueBefore

\* C16: Task::filter answers, for Unscheduled, whether the task has no due
\* field or is overdue; for Overdue, whether it is overdue; for Recurring,
\* whether its due field has is_recurring set (false without a due field),
\* and this last answer is given whatever the context is and whether or not
\* the due string resolves.
C16_Filter ==
    /\ Returned(OpFilter) =>
        ret.b = CASE call.filter = Unscheduled -> (~IsSome(Arg.due) \/ ArgDueBefore)
                  [] call.filter = Overdue -> ArgDueBefore
                  [] call.filter = Recurring ->
                        (IsSome(Arg.due) /\ ArgDue.is_recurring)
    /\ (call.op = OpFilter /\ call.filter = Recurring) => ret.ok

\* the Recurring filter selected a recurring task whose due string is not a
\* date-time, in a context whose zone name is unknown
C16_Witness ==
    /\ Returned(OpFilter)
    /\ call.filter = Recurring
    /\ IsSome(Arg.due)
    /\ ArgDue.date = DueLocalBad
    /\ ArgDue.is_recurring
    /\ config.timezone = Some(UnknownZone)
    /\ ret.b

\* the current date of the context at the instant the pass began
TodayAtStart == DateNaive([utc |-> call.sched.base, tz |-> ExpectedContextZone])

\* the date t is due on: its Date, or the date component of its DateTime
ResolvesToDay(t) ==
    IsSome(t.due) /\ datetimeinfo(t, config).kind \in {DateKind, DateTimeKind}

DueDay(t) ==
    IF datetimeinfo(t, config).kind = DateKind THEN datetimeinfo(t, config).date
    ELSE DateNaive(datetimeinfo(t, config).datetime)

\* is_today or has_no_date or is_overdue, as the claims define them
NotInFutureAtStart(t) ==
    \/ ~IsSome(t.due)
    \/ ResolvesToDay(t) /\ DueDay(t) <= TodayAtStart

\* ret.tasks is the input restricted to the tasks of the claim, none of
\* them due after the current date
OnlyNotInFuture ==
    /\ ret.tasks = SelectSeq(tasks, NotInFutureAtStart)
    /\ \A k \in 1..Len(ret.tasks) :
        ResolvesToDay(ret.tasks[k]) => DueDay(ret.tasks[k]) <= TodayAtStart

\* C17: filter_not_in_future always returns Ok, with exactly the tasks for
\* which is_today or has_no_date or is_overdue holds, in input order; no
\* task due after the current date is among them.
C17_FilterNotInFuture ==
    (call.op = OpFilterNotInFuture /\ call.sched.delta = 0) =>
        (ret.ok /\ OnlyNotInFuture)

\* the same for the passes that return
C17_ReturnedOnlyNotInFuture ==
    (Returned(OpFilterNotInFuture) /\ call.sched.delta = 0) => OnlyNotInFuture

TodayAtEnd ==
    DateNaive([utc |-> call.sched.base + call.sched.delta, tz |-> ExpectedContextZone])

\* t resolves to a DateTime whose date component is the current date
TodayWithTime(t) ==
    /\ IsSome(t.due)
    /\ datetimeinfo(t, config).kind = DateTimeKind
    /\ DateNaive(datetimeinfo(t, config).datetime) = TodayAtStart

\* C18: filter_today_and_has_time returns, in input order, exactly the
\* tasks that resolve to a DateTime whose date component is the current
\* date; a date-only task due today is not returned.
C18_FilterTodayAndHasTime ==
    (Returned(OpFilterTodayAndHasTime) /\ TodayAtStart = TodayAtEnd) =>
        /\ ret.tasks = SelectSeq(tasks, TodayWithTime)
        /\ \A k \in 1..Len(ret.tasks) :
            datetimeinfo(ret.tasks[k], config).kind # DateKind

\* of a date-only task due today and a DateTime task due today, the second
\* alone was returned
C18_Witness ==
    /\ Returned(OpFilterTodayAndHasTime)
    /\ TodayAtStart = TodayAtEnd
    /\ Len(tasks) = 2
    /\ tasks[1].due = Some(DateInfo(DueToday, FALSE, None))
    /\ tasks[2].due = Some(DateInfo(DueUtcLate, TRUE, None))
    /\ TodayAtStart = DaysFromCivil(2024, 1, 1)
    /\ ret.tasks = <<tasks[2]>>

\* the instants the clock showed during the call
InstantsOfCall == {call.sched.base, call.sched.base + call.sched.delta}

\* C19: every task of one sort or filter pass is judged against the same
\* current instant, also when the wall clock advances during the pass: what
\* the pass returns is what it returns with the clock standing still at one
\* instant.
C19_OneInstantPerPass ==
    /\ Returned(OpFilterNotInFuture) =>
        \E at \in InstantsOfCall :
            ret.tasks = filter_not_in_future(tasks, config, Steady(at)).v
    /\ Returned(OpFilterTodayAndHasTime) =>
        \E at \in InstantsOfCall :
            ret.tasks = filter_today_and_has_time(tasks, config, Steady(at)).v
    /\ Returned(OpSortByValue) =>
        \E at \in InstantsOfCall :
            ret.tasks = sort_by_value(tasks, config, Steady(at), call.checked).v

\* out is the sequence in in another order
IsPermutation(out, in) ==
    /\ Len(out) = Len(in)
    /\ \E p \in Perms(Len(in)) : \A i \in 1..Len(in) : out[i] = in[p[i]]

\* out is in with some elements left out
IsSubsequence(out, in) ==
    \E f \in [1..Len(out) -> 1..Len(in)] :
        /\ \A i, j \in 1..Len(out) : i < j => f[i] < f[j]
        /\ \A i \in 1..Len(out) : out[i] = in[f[i]]

Sorts == {OpSortByValue, OpSortByDatetime}

Filters == {OpFilterNotInFuture, OpFilterTodayAndHasTime}

\* C20: the output of sort_by_value and of sort_by_datetime is the input in
\* another order, every task as it was; the output of a filter is the input
\* with some tasks left out; for an empty input every sort and filter
\* returns the empty collection.
C20_TasksUnchanged ==
    /\ (ret.ok /\ call.op \in Sorts) => IsPermutation(ret.tasks, tasks)
    /\ (ret.ok /\ call.op \in Filters) => IsSubsequence(ret.tasks, tasks)
    /\ (call.op \in Sorts \cup Filters /\ tasks = <<>>) =>
            (ret.ok /\ ret.tasks = <<>>)

\* sort_by_datetime exchanged a DateTime task and an undated task
C20_Witness ==
    /\ Returned(OpSortByDatetime)
    /\ Len(tasks) = 2
    /\ HasInstant(tasks[1])
    /\ ~IsSome(tasks[2].due)
    /\ ret.tasks = <<tasks[2], tasks[1]>>

\* the due line of the text Task::fmt returned, and the date string in it
ShownLine == ret.line.due.line

Shown == ShownLine[1].date_string

ShownIcon == ShownLine[1].recurring_icon

\* the wall clock of the DateTime the task resolves to, in the zone of the
\* context
ContextWall == WallClock(ArgInfo.datetime, ExpectedContextZone)

ContextHm ==
    <<(ContextWall % SecsPerDay) \div 3600,
      ((ContextWall % SecsPerDay) % 3600) \div SecsPerMinute>>

ContextYmdHms ==
    CivilFromDays(ContextWall \div SecsPerDay) \o ContextHm \o
        <<ContextWall % SecsPerMinute>>

\* C21: Task::fmt renders the due line from the resolved case.  A Date shows
\* the literal "Today" when it equals the current date of the context and
\* the YYYY-MM-DD string otherwise; a DateTime shows HH:MM when its date
\* component is the current date and the full date-time string (with the
\* zone) otherwise; the recurrence marker is appended exactly when
\* is_recurring is true; a task without a due field has no due line.
C21_DueLine ==
    Returned(OpFmt) =>
        /\ ~IsSome(Arg.due) => (ShownLine = <<>> /\ ret.line.due.err = NoError)
        /\ (IsSome(Arg.due) /\ ArgInfo.kind = DateKind) =>
            /\ Len(ShownLine) = 1
            /\ Shown = IF ArgInfo.date = TodayAtCall
                       THEN Str("Today", <<>>, "")
                       ELSE Str("", CivilFromDays(ArgInfo.date), "")
            /\ (ShownIcon = " ↻") <=> ArgDue.is_recurring
            /\ ShownIcon \in {" ↻", ""}
        /\ (IsSome(Arg.due) /\ ArgInfo.kind = DateTimeKind) =>
            /\ Len(ShownLine) = 1
            /\ Shown.lit = ""
            /\ IF ArgDateComponent = TodayAtCall
               THEN Shown.num = ContextHm /\ Shown.zone = ""
               ELSE Shown.num = ContextYmdHms /\ Shown.zone # ""
            /\ (ShownIcon = " ↻") <=> ArgDue.is_recurring
            /\ ShownIcon \in {" ↻", ""}

\* fmt returned the line of a recurring DateTime task due on the current
\* date, shown as HH:MM in a context zone other than the zone it is anchored in
C21_Witness ==
    /\ Returned(OpFmt)
    /\ IsSome(Arg.due)
    /\ ArgInfo.kind = DateTimeKind
    /\ ArgDateComponent = TodayAtCall
    /\ ArgInfo.datetime.tz # ExpectedContextZone
    /\ ArgDue.is_recurring
    /\ Len(Shown.num) = 2
    /\ ShownIcon = " ↻"

\* C22: `task complete` issues a completion request only when the
\* configuration holds a next_id, and then for that id; a next_id gets into
\* the configuration only by a step of a `next` operation; when next_id is
\* absent the command returns the error "There is nothing to complete. A
\* task must first be marked as 'next'." and sends nothing.
C22_CompleteNeedsNextId ==
    [][/\ TaskComplete =>
            IF IsSome(saved)
            THEN /\ sent' = Append(sent, Unwrap(saved))
                 /\ outcome'.text # NothingToComplete
            ELSE /\ sent' = sent
                 /\ tasks' = tasks
                 /\ outcome' = Out("Err", NothingToComplete, None, 0)
       /\ (sent' # sent) => IsSome(saved)
       /\ (IsSome(saved') /\ saved' # saved) => (NextTask \/ Iterate)
      ]_vars

\* a `task complete` whose request, for the id a `task next` stored, the
\* remote accepted
C22_Witness ==
    /\ Len(sent) = 1
    /\ outcome = Out("Ok", "completed", None, 0)
    /\ \A i \in 1..Len(tasks) : tasks[i].id # sent[1]

\* the value of task t at the clock reading of a command
CommandValue(t) == value(t, config, clock, clock, TRUE).v

\* t is the task sort_by_value puts first: the first of the remote list
\* among those of the highest value
TopOf(t, ts) ==
    \E k \in 1..Len(ts) :
        /\ ts[k] = t
        /\ \A i \in 1..Len(ts) : CommandValue(t) >= CommandValue(ts[i])
        /\ \A i \in 1..(k - 1) : CommandValue(ts[i]) < CommandValue(t)

\* C23: next_task shows the first task of sort_by_value over all tasks
\* returned for the filter, has saved exactly that task's id as next_id when
\* it returns, and reports as the count of remaining tasks the number of
\* tasks returned for the filter; when no task is returned it reports "No
\* tasks on list" and leaves next_id unchanged; when it returns an error,
\* the fetch error included, nothing is saved.
C23_NextTask ==
    [][(pc' = Idle /\ sent' = sent /\ clock' = clock /\ NextTask) =>
        /\ outcome'.kind \in {"Ok", "Err", "Panic"}
        /\ (outcome'.kind = "Ok" /\ IsSome(outcome'.task)) =>
            /\ TopOf(Unwrap(outcome'.task), tasks)
            /\ saved' = Some(Unwrap(outcome'.task).id)
            /\ outcome'.n = Len(tasks)
            /\ outcome'.text = "task(s) remaining"
        /\ (outcome'.kind = "Ok" /\ ~IsSome(outcome'.task)) =>
            /\ Len(tasks) = 0
            /\ outcome'.text = "No tasks on list"
            /\ saved' = saved
        /\ outcome'.kind = "Err" =>
            /\ saved' = saved
            /\ outcome'.text \in {FetchError, SaveError}
            /\ Len(tasks) = 0 => outcome'.text = FetchError
        /\ outcome'.kind = "Ok" => (IsSome(outcome'.task) <=> Len(tasks) > 0)
      ]_vars

\* next_task showed the second of two remote tasks and saved its id over
\* the id of an earlier `next`
C23_Witness ==
    /\ outcome.kind = "Ok"
    /\ Len(tasks) = 2
    /\ outcome.task = Some(tasks[2])
    /\ outcome.n = 2
    /\ saved = Some(tasks[2].id)
    /\ config.next_id = Some(tasks[1].id)

\* the current date of the context at the clock of the commands
TodayNow == DateNaive([utc |-> clock, tz |-> ExpectedContextZone])

\* the not-in-future pool: the remote tasks without due field or due on the
\* current date or before it
InPoolNow(t) == ~IsSome(t.due) \/ (ResolvesToDay(t) /\ DueDay(t) <= TodayNow)

PoolNow == SelectSeq(tasks, InPoolNow)

C25_DateValueNeverOverflows ==
    (call.op = OpDateValue /\ ZonesKnown /\ ArgIsDate) =>
        /\ ret.ok
        /\ ret.n <= 250
        /\ ~(ArgDate = Today /\ is_overdue(Arg, config, R2).b)

\* the calendar date, in the zone of the context, of the instant the
\* DateTime task of the call denotes: the day format_datetime displays
ArgDayInContext ==
    DateNaive(with_timezone(ArgInfo.datetime, ExpectedContextZone))

\* C26: a DateTime task is classified as today or overdue by the calendar
\* date of its instant in the zone of the context, the day on which
\* format_datetime displays it, whatever zone the DateTime is anchored in.
C26_ClassifiedInContextZone ==
    (ret.ok /\ call.op \in {OpIsToday, OpIsOverdue} /\ IsSome(Arg.due)
        /\ ArgInfo.kind = DateTimeKind) =>
        /\ call.op = OpIsToday => ret.b = (ArgDayInContext = TodayAtCall)
        /\ call.op = OpIsOverdue => ret.b = (ArgDayInContext < TodayAtCall)

\* the report a `project report` command printed
PrintedReport == Unwrap(outcome.task)

\* C27: Report::new returns a report whose report_type is the requested
\* one, so that print() heads a DueToday report "Tasks that need to be done
\* today", a DoneToday report "Tasks completed today" and a DoneYesterday
\* report "Tasks completed yesterday".
C27_ReportTypeIsRequested ==
    (outcome.kind = "Ok" /\ outcome.text \in {Title(t) : t \in CommonReports}) =>
        /\ PrintedReport.report_type = PrintedReport.requested
        /\ outcome.text = Title(PrintedReport.requested)

\* the date_value of task t at the one instant of the pass
PassDateValue(t) ==
    date_value(t, config, call.sched.base, call.sched.base, call.checked).v

\* C28: the date contribution dominates the priority contribution: in the
\* output of a sort_by_value pass made at one instant, a task of higher
\* date_value precedes every task of lower date_value whatever their
\* priorities, and priority orders only tasks of equal date_value.
C28_DateDominatesPriority ==
    (Returned(OpSortByValue) /\ call.sched.delta = 0) =>
        \A i, j \in 1..Len(ret.tasks) :
            /\ PassDateValue(ret.tasks[i]) > PassDateValue(ret.tasks[j]) => i < j
            /\ (i < j /\ PassDateValue(ret.tasks[i]) = PassDateValue(ret.tasks[j])) =>
                PriorityLookup(ret.tasks[i].priority)
                    >= PriorityLookup(ret.tasks[j].priority)

\* a pass that put a task of priority Medium without due field before the
\* task of priority High due tomorrow that came first in the input
C28_Witness ==
    /\ Returned(OpSortByValue)
    /\ call.sched.delta = 0
    /\ Len(tasks) = 2
    /\ ret.tasks = <<tasks[2], tasks[1]>>
    /\ tasks[1].priority = PriorityHigh
    /\ tasks[2].priority = PriorityMedium
    /\ PassDateValue(tasks[2]) > PassDateValue(tasks[1])

\* whether Task::filter selects t at the one instant of the pass
Selects(f, t) == filter(t, config, f, call.sched.base).b

InSeq(t, s) == \E k \in 1..Len(s) : s[k] = t

\* the result of filter_not_in_future on the collection at that instant
NotInFutureResult == filter_not_in_future(tasks, config, Steady(call.sched.base)).v

\* C29: at one instant the derived subsets of a collection are nested: what
\* the Overdue filter selects the Unscheduled filter selects, and what the
\* Unscheduled filter selects filter_not_in_future returns; what
\* filter_today_and_has_time returns filter_not_in_future returns too, and
\* neither the Overdue nor the Unscheduled filter selects it.
C29_NestedSubsets ==
    /\ (Returned(OpFilterNotInFuture) /\ call.sched.delta = 0) =>
        \A k \in 1..Len(tasks) :
            /\ Selects(Overdue, tasks[k]) => Selects(Unscheduled, tasks[k])
            /\ Selects(Unscheduled, tasks[k]) => InSeq(tasks[k], ret.tasks)
    /\ (Returned(OpFilterTodayAndHasTime) /\ call.sched.delta = 0) =>
        \A k \in 1..Len(ret.tasks) :
            /\ InSeq(ret.tasks[k], NotInFutureResult)
            /\ ~Selects(Overdue, ret.tasks[k])
            /\ ~Selects(Unscheduled, ret.tasks[k])

\* filter_not_in_future returned an overdue task and left out another task
C29_Witness ==
    /\ Returned(OpFilterNotInFuture)
    /\ call.sched.delta = 0
    /\ Len(ret.tasks) < Len(tasks)
    /\ \E k \in 1..Len(tasks) :
        Selects(Overdue, tasks[k]) /\ InSeq(tasks[k], ret.tasks)

\* t is not among the tasks a filter pass returned, and is among those a
\* sort_by_value pass at one instant returned, with date_value 50
ExcludedOrKept(t) ==
    /\ call.op \in {OpFilterNotInFuture, OpFilterTodayAndHasTime} =>
        ~InSeq(t, ret.tasks)
    /\ (call.op = OpSortByValue /\ call.sched.delta = 0) =>
        (InSeq(t, ret.tasks) /\ PassDateValue(t) = 50)

\* C30: a task whose due field fails to resolve is neither undated, nor
\* today, nor overdue, nor timed: filter_not_in_future and
\* filter_today_and_has_time return without it, the Unscheduled and Overdue
\* filters answer false for it, and sort_by_value keeps it, with date_value
\* 50.
C30_FailedResolutionExcluded ==
    call.op \in {OpFilterNotInFuture, OpFilterTodayAndHasTime, OpSortByValue} =>
        \A k \in 1..Len(tasks) :
            ResolutionFails(tasks[k]) =>
                /\ ret.ok
                /\ ExcludedOrKept(tasks[k])
                /\ filter(tasks[k], config, Unscheduled, call.sched.base)
                    = Bool(FALSE)
                /\ filter(tasks[k], config, Overdue, call.sched.base) = Bool(FALSE)

\* the same for the passes that return and the failures that are returned
\* as Err
C30_ReturnedErrExcluded ==
    (ret.ok /\ call.op \in {OpFilterNotInFuture, OpFilterTodayAndHasTime, OpSortByValue}) =>
        \A k \in 1..Len(tasks) :
            (IsSome(tasks[k].due) /\ datetimeinfo(tasks[k], config).kind = ErrKind) =>
                /\ ExcludedOrKept(tasks[k])
                /\ filter(tasks[k], config, Unscheduled, call.sched.base)
                    = Bool(FALSE)
                /\ filter(tasks[k], config, Overdue, call.sched.base) = Bool(FALSE)

====
